---- MODULE Spec2Model ----
(***************************************************************************)
(* Model of s3_extend/s3p.py: the S3P supervisor.  The main thread runs    *)
(* S3P.__init__ (startup, atexit registration, wait loop), the daemon      *)
(* thread runs S3P.run (the liveness monitor), killall is the shutdown     *)
(* routine and signal_handler raises KeyboardInterrupt in the main thread. *)
(* The OS (process table, poll results, lookup and kill results, launch    *)
(* results, signal delivery) is the environment and is nondeterministic.   *)
(***************************************************************************)
EXTENDS Integers, Sequences, FiniteSets, TLC

\* ---------------------------------------------------------------- bounds
\* largest number of processes psutil.pids() enumerates in start_backplane
MaxProcs == 2
\* largest number of SIGINT/SIGTERM deliveries in one run
MaxSignals == 2

\* ------------------------------------------------------------- constants
\* Python None for a pid attribute (falsy, like a missing identifier)
None == 0

Roles == {"bp", "awg", "hwg"}
Threads == {"main", "monitor"}

\* the pid subprocess.Popen(...).pid yields for a role: fresh, above the
\* pids of the enumerated processes
SpawnPid(r) == MaxProcs + (CASE r = "bp" -> 1 [] r = "awg" -> 2 [] OTHER -> 3)

\* the status strings psutil.Process.status() can return (a selection)
Statuses == {"sleeping", "running", "disk-sleep", "zombie", "stopped"}
\* the exceptions psutil.Process(pid) / status() raise
PsutilErrors == {"NoSuchProcess", "AccessDenied", "ZombieProcess"}

\* valid_status at the top of run() (line 95)
valid_statusWithZombie == {"sleeping", "running", "disk-sleep", "zombie"}
valid_statusNoDiskSleep == {"sleeping", "running"}
valid_status == {"sleeping", "running", "disk-sleep"}

\* ------------------------------------------------- values of killall args
\* a Python value held by killall's b, w, p: a pid (or None), or a
\* psutil.Process object for a pid
PidVal(n) == [proc |-> FALSE, pid |-> n]
ProcObj(n) == [proc |-> TRUE, pid |-> n]
\* Python truthiness of such a value
Truthy(v) == v.proc \/ v.pid # None

\* ------------------------------------------------- the backplane scan
\* one enumerated process: its executable name, whether psutil.Process(pid)
\* succeeds and whether p.name() succeeds; its pid is its index in procs
ProcEntries == [name : {"backplane", "other"}, open : BOOLEAN, nameOK : BOOLEAN]

RECURSIVE SeqsUpTo(_, _)
SeqsUpTo(S, n) ==
    IF n = 0 THEN {<<>>}
    ELSE LET shorter == SeqsUpTo(S, n - 1)
         IN  shorter \cup {Append(s, e) : s \in {q \in shorter : Len(q) = n - 1}, e \in S}

\* the for loop of start_backplane over psutil.pids(): i is the next index,
\* p the pid held by the local p (None before the first successful open),
\* exists/bp the values of self.backplane_exists / self.proc_bp so far.
\* crash: p.name() raised (AttributeError on None, or a psutil error).
RECURSIVE ScanFrom(_, _, _, _, _)
ScanFrom(tab, i, p, exists, bp) ==
    IF i > Len(tab) THEN [crash |-> FALSE, exists |-> exists, bp |-> bp]
    ELSE LET p2 == IF tab[i].open THEN i ELSE p
         IN  IF p2 = None \/ ~tab[p2].nameOK
             THEN [crash |-> TRUE, exists |-> exists, bp |-> bp]
             ELSE IF tab[p2].name = "backplane"
                  THEN ScanFrom(tab, i + 1, p2, TRUE, p2)
                  ELSE ScanFrom(tab, i + 1, p2, exists, bp)

Scan(tab) == ScanFrom(tab, 1, None, FALSE, None)

VARIABLES
    pc,               \* position of the main thread
    procs,            \* the psutil.pids() snapshot start_backplane iterates
    backplane_exists, \* self.backplane_exists
    proc_bp,          \* self.proc_bp
    proc_awg,         \* self.proc_awg
    proc_hwg,         \* self.proc_hwg
    atexit_args,      \* <<>> or the <<b, w, p>> registered with atexit
    has_stop_event,   \* self.stop_event exists (created at line 70)
    stop_event,       \* self.stop_event.is_set()
    mon,              \* position of the monitor thread (run)
    mi,               \* index into pid_list of the monitor's for loop
    kf,               \* per thread: the frame of its killall call
    nsig,             \* signals delivered so far
    klog,             \* per role: outcomes of the kill attempts made on it
    launches,         \* per role: number of subprocess.Popen calls
    adopted,          \* the scan set backplane_exists (history)
    failed_role,      \* the role whose Popen raised, or "none" (history)
    cycle_bad,        \* a poll of the current monitor cycle was unhealthy (history)
    dead,             \* the roles whose process has exited (and stays gone)
    first_bad,        \* the first role a poll found unhealthy, or "none" (history)
    trigger,          \* why the main thread left __init__ (history)
    exit_code         \* the exit status of the run once pc is finalize/exited

vars == <<pc, procs, backplane_exists, proc_bp, proc_awg, proc_hwg, atexit_args,
          has_stop_event, stop_event, mon, mi, kf, nsig, klog, launches,
          adopted, failed_role, cycle_bad, dead, first_bad, trigger, exit_code>>

\* the frame of a killall call: pc is idle (no call), set (line 126), lookup
\* (psutil.Process(self.proc_x) of role r), kill (inside the inner try of
\* role r), returned, or aborted (an exception left killall); b, w, p are
\* the values of its parameters, p being reassigned by every lookup
IdleFrame == [pc |-> "idle", r |-> "none",
              b |-> PidVal(None), w |-> PidVal(None), p |-> PidVal(None)]

Init ==
    /\ pc = "start_backplane"
    /\ procs \in SeqsUpTo(ProcEntries, MaxProcs)
    /\ backplane_exists = FALSE
    /\ proc_bp = None
    /\ proc_awg = None
    /\ proc_hwg = None
    /\ atexit_args = <<>>
    /\ has_stop_event = FALSE
    /\ stop_event = FALSE
    /\ mon = "not_started"
    /\ mi = 1
    /\ kf = [t \in Threads |-> IdleFrame]
    /\ nsig = 0
    /\ klog = [r \in Roles |-> <<>>]
    /\ launches = [r \in Roles |-> 0]
    /\ adopted = FALSE
    /\ failed_role = "none"
    /\ cycle_bad = FALSE
    /\ dead = {}
    /\ first_bad = "none"
    /\ trigger = "none"
    /\ exit_code = 0

\* ------------------------------------------------------- main thread
\* an exception leaves __init__ uncaught (or sys.exit is called): the
\* interpreter starts finalizing with the given exit status
LeaveInit(code, why) ==
    /\ pc' = "finalize"
    /\ exit_code' = code
    /\ trigger' = why

\* line 183: a new backplane is spawned only if none was found
NeedLaunchAlways(exists) == TRUE
NeedLaunch(exists) == ~exists

\* subprocess.Popen either returns (the next statement runs) or raises,
\* and nothing in __init__ catches it
AfterLaunchIgnore(ok, next) == next
AfterLaunch(ok, next) == IF ok THEN next ELSE "finalize"

\* lines 169-180: the scan of start_backplane
start_backplane_scan ==
    /\ pc = "start_backplane"
    /\ LET res == Scan(procs)
       IN  /\ backplane_exists' = res.exists
           /\ proc_bp' = res.bp
           /\ adopted' = res.exists
           /\ IF res.crash
              THEN LeaveInit(1, "scan_error")
              ELSE /\ pc' = "bp_launch"
                   /\ UNCHANGED <<exit_code, trigger>>
    /\ UNCHANGED <<procs, proc_awg, proc_hwg, atexit_args, has_stop_event, stop_event,
                   mon, mi, kf, nsig, klog, launches, failed_role, cycle_bad, dead, first_bad>>

\* lines 183-193: spawn a backplane unless one exists; start_backplane returns
start_backplane_launch(ok) ==
    /\ pc = "bp_launch"
    /\ procs' = <<>>
    /\ IF NeedLaunch(backplane_exists)
       THEN /\ launches' = [launches EXCEPT !["bp"] = @ + 1]
            /\ pc' = AfterLaunch(ok, "sleep")
            /\ IF ok
               THEN /\ proc_bp' = SpawnPid("bp")
                    /\ backplane_exists' = TRUE
                    /\ UNCHANGED <<failed_role, exit_code, trigger>>
               ELSE /\ failed_role' = "bp"
                    /\ exit_code' = 1
                    /\ trigger' = "launch_error"
                    /\ UNCHANGED <<proc_bp, backplane_exists>>
       ELSE /\ ok
            /\ pc' = "sleep"
            /\ UNCHANGED <<launches, proc_bp, backplane_exists, failed_role,
                           exit_code, trigger>>
    /\ UNCHANGED <<proc_awg, proc_hwg, atexit_args, has_stop_event, stop_event,
                   mon, mi, kf, nsig, klog, adopted, cycle_bad, dead, first_bad>>

\* line 55: time.sleep(1)
startup_sleepSkipWsgw ==
    /\ pc = "sleep"
    /\ pc' = "start_pbgw"
    /\ UNCHANGED <<procs, backplane_exists, proc_bp, proc_awg, proc_hwg, atexit_args,
                   has_stop_event, stop_event, mon, mi, kf, nsig, klog, launches,
                   adopted, failed_role, cycle_bad, dead, first_bad, trigger, exit_code>>

startup_sleep ==
    /\ pc = "sleep"
    /\ pc' = "start_wsgw"
    /\ UNCHANGED <<procs, backplane_exists, proc_bp, proc_awg, proc_hwg, atexit_args,
                   has_stop_event, stop_event, mon, mi, kf, nsig, klog, launches,
                   adopted, failed_role, cycle_bad, dead, first_bad, trigger, exit_code>>

\* lines 195-212
start_wsgw(ok) ==
    /\ pc = "start_wsgw"
    /\ launches' = [launches EXCEPT !["awg"] = @ + 1]
    /\ pc' = AfterLaunch(ok, "start_pbgw")
    /\ IF ok
       THEN /\ proc_awg' = SpawnPid("awg")
            /\ UNCHANGED <<failed_role, exit_code, trigger>>
       ELSE /\ failed_role' = "awg"
            /\ exit_code' = 1
            /\ trigger' = "launch_error"
            /\ UNCHANGED proc_awg
    /\ UNCHANGED <<procs, backplane_exists, proc_bp, proc_hwg, atexit_args,
                   has_stop_event, stop_event, mon, mi, kf, nsig, klog,
                   adopted, cycle_bad, dead, first_bad>>

\* lines 214-234
start_pbgw(ok) ==
    /\ pc = "start_pbgw"
    /\ launches' = [launches EXCEPT !["hwg"] = @ + 1]
    /\ pc' = AfterLaunch(ok, "atexit_register")
    /\ IF ok
       THEN /\ proc_hwg' = SpawnPid("hwg")
            /\ UNCHANGED <<failed_role, exit_code, trigger>>
       ELSE /\ failed_role' = "hwg"
            /\ exit_code' = 1
            /\ trigger' = "launch_error"
            /\ UNCHANGED proc_hwg
    /\ UNCHANGED <<procs, backplane_exists, proc_bp, proc_awg, atexit_args,
                   has_stop_event, stop_event, mon, mi, kf, nsig, klog,
                   adopted, cycle_bad, dead, first_bad>>

\* line 63: atexit.register(self.killall, self.proc_bp, self.proc_awg, self.proc_hwg)
atexit_registerSpawnedOnly ==
    /\ pc = "atexit_register"
    /\ atexit_args' = <<PidVal(IF adopted THEN None ELSE proc_bp),
                        PidVal(proc_awg), PidVal(proc_hwg)>>
    /\ pc' = "thread_init"
    /\ UNCHANGED <<procs, backplane_exists, proc_bp, proc_awg, proc_hwg,
                   has_stop_event, stop_event, mon, mi, kf, nsig, klog, launches,
                   adopted, failed_role, cycle_bad, dead, first_bad, trigger, exit_code>>

atexit_register ==
    /\ pc = "atexit_register"
    /\ atexit_args' = <<PidVal(proc_bp), PidVal(proc_awg), PidVal(proc_hwg)>>
    /\ pc' = "thread_init"
    /\ UNCHANGED <<procs, backplane_exists, proc_bp, proc_awg, proc_hwg,
                   has_stop_event, stop_event, mon, mi, kf, nsig, klog, launches,
                   adopted, failed_role, cycle_bad, dead, first_bad, trigger, exit_code>>

\* lines 68-70: Thread.__init__, daemon flag, self.stop_event = threading.Event()
thread_init ==
    /\ pc = "thread_init"
    /\ has_stop_event' = TRUE
    /\ stop_event' = FALSE
    /\ pc' = "event_clear"
    /\ UNCHANGED <<procs, backplane_exists, proc_bp, proc_awg, proc_hwg, atexit_args,
                   mon, mi, kf, nsig, klog, launches,
                   adopted, failed_role, cycle_bad, dead, first_bad, trigger, exit_code>>

\* line 73: self.stop_event.clear()
event_clear ==
    /\ pc = "event_clear"
    /\ stop_event' = FALSE
    /\ pc' = "thread_start"
    /\ UNCHANGED <<procs, backplane_exists, proc_bp, proc_awg, proc_hwg, atexit_args,
                   has_stop_event, mon, mi, kf, nsig, klog, launches,
                   adopted, failed_role, cycle_bad, dead, first_bad, trigger, exit_code>>

\* line 74: self.start()
thread_start ==
    /\ pc = "thread_start"
    /\ mon' = "top"
    /\ pc' = "loop_check"
    /\ UNCHANGED <<procs, backplane_exists, proc_bp, proc_awg, proc_hwg, atexit_args,
                   has_stop_event, stop_event, mi, kf, nsig, klog, launches,
                   adopted, failed_role, cycle_bad, dead, first_bad, trigger, exit_code>>

\* lines 77-79: the wait loop sees the event set and calls sys.exit(0),
\* or goes on to the sleep
loop_checkRelaunch ==
    /\ pc = "loop_check"
    /\ IF stop_event
       THEN IF launches["hwg"] < 2
            THEN /\ pc' = "start_pbgw"
                 /\ UNCHANGED <<exit_code, trigger>>
            ELSE LeaveInit(0, "monitor")
       ELSE /\ pc' = "loop_sleep"
            /\ UNCHANGED <<exit_code, trigger>>
    /\ UNCHANGED <<procs, backplane_exists, proc_bp, proc_awg, proc_hwg, atexit_args,
                   has_stop_event, stop_event, mon, mi, kf, nsig, klog, launches,
                   adopted, failed_role, cycle_bad, dead, first_bad>>

loop_check ==
    /\ pc = "loop_check"
    /\ IF stop_event
       THEN LeaveInit(0, "monitor")
       ELSE /\ pc' = "loop_sleep"
            /\ UNCHANGED <<exit_code, trigger>>
    /\ UNCHANGED <<procs, backplane_exists, proc_bp, proc_awg, proc_hwg, atexit_args,
                   has_stop_event, stop_event, mon, mi, kf, nsig, klog, launches,
                   adopted, failed_role, cycle_bad, dead, first_bad>>

\* lines 80-81: time.sleep(.01) returns
loop_sleep ==
    /\ pc = "loop_sleep"
    /\ pc' = "loop_check"
    /\ UNCHANGED <<procs, backplane_exists, proc_bp, proc_awg, proc_hwg, atexit_args,
                   has_stop_event, stop_event, mon, mi, kf, nsig, klog, launches,
                   adopted, failed_role, cycle_bad, dead, first_bad, trigger, exit_code>>

\* ------------------------------------------------------------ killall
\* self.proc_bp / self.proc_awg / self.proc_hwg by role
ProcOf(r) == CASE r = "bp" -> proc_bp [] r = "awg" -> proc_awg [] OTHER -> proc_hwg

\* threading.Event.set() (line 126) applied to the flag's current value
SetEventToggle(e) == ~e
SetEventNoop(e) == e
SetEvent(e) == TRUE

\* where killall goes after the branch of a role: the next `if` whose
\* variable is truthy at that moment (lines 128, 140, 152), or the return
AfterHwg(f) == [f EXCEPT !.pc = "returned", !.r = "none"]
AfterAwg(f) == IF Truthy(f.p) THEN [f EXCEPT !.pc = "lookup", !.r = "hwg"] ELSE AfterHwg(f)
AfterBp(f) == IF Truthy(f.w) THEN [f EXCEPT !.pc = "lookup", !.r = "awg"] ELSE AfterAwg(f)
AfterSet(f) == IF Truthy(f.b) THEN [f EXCEPT !.pc = "lookup", !.r = "bp"] ELSE AfterBp(f)
After(f) == CASE f.r = "bp" -> AfterBp(f) [] f.r = "awg" -> AfterAwg(f) [] OTHER -> AfterHwg(f)

\* lines 131-132, 143-144, 155-156: a failed lookup is passed over
OnLookupFailReturn(f) == AfterHwg(f)
OnLookupFail(f) == After(f)

\* a thread runs its killall while the interpreter lives; the main thread
\* runs it only as the atexit callback
CanRun(t) == IF t = "main" THEN pc = "finalize" ELSE pc # "exited"

\* line 126: self.stop_event.set(); AttributeError when the attribute is
\* not there yet
killall_set(t) ==
    /\ CanRun(t)
    /\ kf[t].pc = "set"
    /\ IF has_stop_event
       THEN /\ stop_event' = SetEvent(stop_event)
            /\ kf' = [kf EXCEPT ![t] = AfterSet(@)]
       ELSE /\ kf' = [kf EXCEPT ![t].pc = "aborted"]
            /\ UNCHANGED stop_event
    /\ UNCHANGED <<pc, procs, backplane_exists, proc_bp, proc_awg, proc_hwg, atexit_args,
                   has_stop_event, mon, mi, nsig, klog, launches,
                   adopted, failed_role, cycle_bad, dead, first_bad, trigger, exit_code>>

\* lines 129-133, 141-145, 153-157: p = psutil.Process(self.proc_x)
killall_lookup(t, ok) ==
    /\ CanRun(t)
    /\ kf[t].pc = "lookup"
    /\ LET f == kf[t]
       IN  /\ klog' = [klog EXCEPT ![f.r] = Append(@, IF ok THEN "opened" ELSE "lookup_failed")]
           /\ kf' = [kf EXCEPT ![t] =
                       IF ok THEN [f EXCEPT !.pc = "kill", !.p = ProcObj(ProcOf(f.r))]
                       ELSE OnLookupFail(f)]
    /\ UNCHANGED <<pc, procs, backplane_exists, proc_bp, proc_awg, proc_hwg, atexit_args,
                   has_stop_event, stop_event, mon, mi, nsig, launches,
                   adopted, failed_role, cycle_bad, dead, first_bad, trigger, exit_code>>

\* lines 134-139, 146-151, 158-163: p.kill(), any exception swallowed
killall_kill(t, ok) ==
    /\ CanRun(t)
    /\ kf[t].pc = "kill"
    /\ LET f == kf[t]
       IN  /\ klog' = [klog EXCEPT ![f.r] =
                         [@ EXCEPT ![Len(@)] = IF ok THEN "killed" ELSE "kill_failed"]]
           /\ kf' = [kf EXCEPT ![t] = After(f)]
           /\ dead' = IF ok THEN dead \cup {f.r} ELSE dead
    /\ UNCHANGED <<pc, procs, backplane_exists, proc_bp, proc_awg, proc_hwg, atexit_args,
                   has_stop_event, stop_event, mon, mi, nsig, launches,
                   adopted, failed_role, cycle_bad, first_bad, trigger, exit_code>>

\* ------------------------------------------------------------ monitor
\* pid_list of run (line 96)
pid_list == <<proc_bp, proc_awg, proc_hwg>>
\* the role whose pid sits at index i of pid_list
RoleAt(i) == CASE i = 1 -> "bp" [] i = 2 -> "awg" [] OTHER -> "hwg"
\* what a poll of an exited process gives: status 'zombie' until it is
\* reaped, then NoSuchProcess (or ZombieProcess) from psutil
DeadOutcomes == {"zombie", "NoSuchProcess", "ZombieProcess"}

\* the for loop of run moves to the next pid, or to the sleep of line 116
RunAdvance ==
    IF mi < Len(pid_list)
    THEN /\ mi' = mi + 1
         /\ mon' = "poll"
    ELSE /\ mi' = 1
         /\ mon' = "sleep"

\* line 100: while not self.stop_event.is_set(); line 101
run_topNoTest ==
    /\ pc # "exited"
    /\ mon = "top"
    /\ mon' = "poll"
    /\ mi' = 1
    /\ cycle_bad' = FALSE
    /\ UNCHANGED <<pc, procs, backplane_exists, proc_bp, proc_awg, proc_hwg, atexit_args,
                   has_stop_event, stop_event, kf, nsig, klog, launches,
                   adopted, failed_role, dead, first_bad, trigger, exit_code>>

run_top ==
    /\ pc # "exited"
    /\ mon = "top"
    /\ IF stop_event
       THEN /\ mon' = "done"
            /\ UNCHANGED <<mi, cycle_bad>>
       ELSE /\ mon' = "poll"
            /\ mi' = 1
            /\ cycle_bad' = FALSE
    /\ UNCHANGED <<pc, procs, backplane_exists, proc_bp, proc_awg, proc_hwg, atexit_args,
                   has_stop_event, stop_event, kf, nsig, klog, launches,
                   adopted, failed_role, dead, first_bad, trigger, exit_code>>

\* lines 103-115: poll pid_list[mi]; out is the status returned, or the
\* psutil exception raised; an unhealthy poll calls killall(bp, ws, pb)
\* with the three locals of line 101, which are all None
run_poll(out) ==
    /\ pc # "exited"
    /\ mon = "poll"
    /\ RoleAt(mi) \in dead => out \in DeadOutcomes
    /\ cycle_bad' = (cycle_bad \/ out \notin {"sleeping", "running", "disk-sleep"})
    /\ first_bad' = IF first_bad = "none" /\ out \notin {"sleeping", "running", "disk-sleep"}
                    THEN RoleAt(mi) ELSE first_bad
    /\ IF out \in PsutilErrors \/ out \notin valid_status
       THEN /\ kf' = [kf EXCEPT !["monitor"] =
                        [pc |-> "set", r |-> "none",
                         b |-> PidVal(None), w |-> PidVal(None), p |-> PidVal(None)]]
            /\ mon' = "killall"
            /\ UNCHANGED mi
       ELSE /\ RunAdvance
            /\ UNCHANGED kf
    /\ UNCHANGED <<pc, procs, backplane_exists, proc_bp, proc_awg, proc_hwg, atexit_args,
                   has_stop_event, stop_event, nsig, klog, launches,
                   adopted, failed_role, dead, trigger, exit_code>>

\* killall returned to run: the for loop goes on
run_after_killall ==
    /\ pc # "exited"
    /\ mon = "killall"
    /\ kf["monitor"].pc = "returned"
    /\ kf' = [kf EXCEPT !["monitor"] = IdleFrame]
    /\ RunAdvance
    /\ UNCHANGED <<pc, procs, backplane_exists, proc_bp, proc_awg, proc_hwg, atexit_args,
                   has_stop_event, stop_event, nsig, klog, launches,
                   adopted, failed_role, cycle_bad, dead, first_bad, trigger, exit_code>>

\* line 116: time.sleep(.3) returns
run_sleep ==
    /\ pc # "exited"
    /\ mon = "sleep"
    /\ mon' = "top"
    /\ UNCHANGED <<pc, procs, backplane_exists, proc_bp, proc_awg, proc_hwg, atexit_args,
                   has_stop_event, stop_event, mi, kf, nsig, klog, launches,
                   adopted, failed_role, cycle_bad, dead, first_bad, trigger, exit_code>>

\* ------------------------------------------------- signals and exit
StartupPcs == {"start_backplane", "bp_launch", "sleep", "start_wsgw", "start_pbgw",
               "atexit_register", "thread_init", "event_clear", "thread_start"}

\* lines 237-239: SIGINT/SIGTERM raise KeyboardInterrupt in the main thread,
\* wherever it is.  Only the sleep of line 81 is inside the try of lines
\* 80-83 (sys.exit(0)); elsewhere in __init__ it is uncaught and the
\* interpreter dies of the interrupt (status 130).  Inside the atexit call
\* of killall it leaves killall, unless it hits the inner try whose bare
\* except swallows it (with p.kill() done or not).
signal_handler ==
    /\ nsig < MaxSignals
    /\ nsig' = nsig + 1
    /\ \/ /\ pc = "loop_sleep"
          /\ LeaveInit(0, "signal_running")
          /\ UNCHANGED <<kf, klog, dead>>
       \/ /\ pc = "loop_check"
          /\ LeaveInit(130, "signal_running")
          /\ UNCHANGED <<kf, klog, dead>>
       \/ /\ pc \in StartupPcs
          /\ LeaveInit(130, "signal_startup")
          /\ UNCHANGED <<kf, klog, dead>>
       \/ /\ pc = "finalize"
          /\ kf["main"].pc \in {"set", "lookup"}
          /\ kf' = [kf EXCEPT !["main"].pc = "aborted"]
          /\ UNCHANGED <<pc, exit_code, trigger, klog, dead>>
       \/ /\ pc = "finalize"
          /\ kf["main"].pc = "kill"
          /\ \E did \in BOOLEAN :
                /\ klog' = [klog EXCEPT ![kf["main"].r] =
                              [@ EXCEPT ![Len(@)] = IF did THEN "killed" ELSE "interrupted"]]
                /\ dead' = IF did THEN dead \cup {kf["main"].r} ELSE dead
          /\ kf' = [kf EXCEPT !["main"] = After(@)]
          /\ UNCHANGED <<pc, exit_code, trigger>>
    /\ UNCHANGED <<procs, backplane_exists, proc_bp, proc_awg, proc_hwg, atexit_args,
                   has_stop_event, stop_event, mon, mi, launches,
                   adopted, failed_role, cycle_bad, first_bad>>

\* interpreter finalization calls the registered atexit callback:
\* self.killall(b, w, p) with the values captured at line 63
atexit_run ==
    /\ pc = "finalize"
    /\ atexit_args # <<>>
    /\ kf["main"].pc = "idle"
    /\ kf' = [kf EXCEPT !["main"] =
                [pc |-> "set", r |-> "none",
                 b |-> atexit_args[1], w |-> atexit_args[2], p |-> atexit_args[3]]]
    /\ UNCHANGED <<pc, procs, backplane_exists, proc_bp, proc_awg, proc_hwg, atexit_args,
                   has_stop_event, stop_event, mon, mi, nsig, klog, launches,
                   adopted, failed_role, cycle_bad, dead, first_bad, trigger, exit_code>>

\* the process ends: no callback registered, or the callback is over; the
\* daemon monitor thread dies with it
interpreter_exit ==
    /\ pc = "finalize"
    /\ atexit_args = <<>> \/ kf["main"].pc \in {"returned", "aborted"}
    /\ pc' = "exited"
    /\ UNCHANGED <<procs, backplane_exists, proc_bp, proc_awg, proc_hwg, atexit_args,
                   has_stop_event, stop_event, mon, mi, kf, nsig, klog, launches,
                   adopted, failed_role, cycle_bad, dead, first_bad, trigger, exit_code>>

\* a supervised process exits on its own (crash, device unplugged): the OS
\* side of what lines 104-114 observe; an exited process stays gone
process_exit(r) ==
    /\ pc # "exited"
    /\ ProcOf(r) # None
    /\ r \notin dead
    /\ dead' = dead \cup {r}
    /\ UNCHANGED <<pc, procs, backplane_exists, proc_bp, proc_awg, proc_hwg, atexit_args,
                   has_stop_event, stop_event, mon, mi, kf, nsig, klog, launches,
                   adopted, failed_role, cycle_bad, first_bad, trigger, exit_code>>

Next ==
    \/ start_backplane_scan
    \/ \E ok \in BOOLEAN : start_backplane_launch(ok)
    \/ startup_sleep
    \/ \E ok \in BOOLEAN : start_wsgw(ok)
    \/ \E ok \in BOOLEAN : start_pbgw(ok)
    \/ atexit_register
    \/ thread_init
    \/ event_clear
    \/ thread_start
    \/ loop_check
    \/ loop_sleep
    \/ \E t \in Threads : killall_set(t)
    \/ \E t \in Threads, ok \in BOOLEAN : killall_lookup(t, ok)
    \/ \E t \in Threads, ok \in BOOLEAN : killall_kill(t, ok)
    \/ run_top
    \/ \E out \in Statuses \cup PsutilErrors : run_poll(out)
    \/ run_after_killall
    \/ run_sleep
    \/ signal_handler
    \/ atexit_run
    \/ interpreter_exit
    \/ \E r \in Roles : process_exit(r)

Spec == Init /\ [][Next]_vars

\* the steps of the main thread once startup is over, and those of the
\* monitor thread: the OS schedules both threads (lines 74-81, 100-116)
MainStep ==
    \/ loop_check
    \/ loop_sleep
    \/ atexit_run
    \/ killall_set("main")
    \/ \E ok \in BOOLEAN : killall_lookup("main", ok)
    \/ \E ok \in BOOLEAN : killall_kill("main", ok)
    \/ interpreter_exit

MonitorStep ==
    \/ run_top
    \/ \E out \in Statuses \cup PsutilErrors : run_poll(out)
    \/ run_after_killall
    \/ run_sleep
    \/ killall_set("monitor")
    \/ \E ok \in BOOLEAN : killall_lookup("monitor", ok)
    \/ \E ok \in BOOLEAN : killall_kill("monitor", ok)

FairSpec == Spec /\ WF_vars(MainStep) /\ WF_vars(MonitorStep)

\* killall(b, w, p) called on its own, as the registered callback, for
\* every combination of present and absent arguments (lines 118-163); the
\* three processes are up and the monitor is not running
KillallInit ==
    /\ pc = "finalize"
    /\ procs = <<>>
    /\ backplane_exists = TRUE
    /\ proc_bp = SpawnPid("bp")
    /\ proc_awg = SpawnPid("awg")
    /\ proc_hwg = SpawnPid("hwg")
    /\ atexit_args \in {<<PidVal(b), PidVal(w), PidVal(p)>> :
                           b \in {None, SpawnPid("bp")},
                           w \in {None, SpawnPid("awg")},
                           p \in {None, SpawnPid("hwg")}}
    /\ has_stop_event = TRUE
    /\ stop_event \in BOOLEAN
    /\ mon = "done"
    /\ mi = 1
    /\ kf = [t \in Threads |-> IdleFrame]
    /\ nsig = 0
    /\ klog = [r \in Roles |-> <<>>]
    /\ launches = [r \in Roles |-> 1]
    /\ adopted = FALSE
    /\ failed_role = "none"
    /\ cycle_bad = FALSE
    /\ dead = {}
    /\ first_bad = "none"
    /\ trigger = "none"
    /\ exit_code = 0

KillallNext ==
    \/ atexit_run
    \/ killall_set("main")
    \/ \E ok \in BOOLEAN : killall_lookup("main", ok)
    \/ \E ok \in BOOLEAN : killall_kill("main", ok)
    \/ interpreter_exit

KillallSpec == KillallInit /\ [][KillallNext]_vars

TypeOK ==
    /\ pc \in StartupPcs \cup {"loop_check", "loop_sleep", "finalize", "exited"}
    /\ mon \in {"not_started", "top", "poll", "killall", "sleep", "done"}
    /\ mi \in 1..3
    /\ stop_event \in BOOLEAN
    /\ nsig \in 0..MaxSignals
    /\ \A t \in Threads : kf[t].pc \in {"idle", "set", "lookup", "kill", "returned", "aborted"}

\* ------------------------------------------------------------- claims
\* a kill attempt on a role is one pass through its branch of killall
Attempts(r) == Len(klog[r])
Known(r) == ProcOf(r) # None
Stopped == pc = "exited"

\* C1: under every interleaving of the shutdown triggers, each supervised
\* process with a known identifier receives exactly one kill attempt: never
\* two, and not zero once the run has stopped.
C1_ExactlyOneKillAttempt ==
    /\ \A r \in Roles : Attempts(r) <= 1
    /\ (Stopped /\ trigger \in {"monitor", "signal_running"})
          => \A r \in Roles : Known(r) => Attempts(r) = 1

\* C2: the stop_event flag goes from false to true at most once and is never
\* reset afterwards, however often and from whichever thread killall is
\* invoked, also when a process polls healthy again after an unhealthy poll.
C2_FlagNeverReset == [][stop_event => stop_event']_vars

\* killall was invoked by the monitor and again by the atexit callback, and
\* the flag is (still) set
C2_Witness ==
    /\ stop_event
    /\ trigger = "monitor"
    /\ kf["main"].pc = "returned"

\* C3: killall invoked with all three identifiers known attempts termination
\* of the backplane, the websocket gateway and the device gateway, whether
\* or not an earlier process is gone or inaccessible or its kill fails.
C3_AllThreeAttempted ==
    (/\ atexit_args # <<>>
     /\ \A i \in 1..3 : Truthy(atexit_args[i])
     /\ kf["main"].pc = "returned")
       => \A r \in Roles : Attempts(r) >= 1

\* killall returned after the backplane lookup failed and the websocket
\* gateway's kill raised, and the device gateway was still killed
C3_Witness ==
    /\ kf["main"].pc = "returned"
    /\ klog["bp"] = <<"lookup_failed">>
    /\ klog["awg"] = <<"kill_failed">>
    /\ klog["hwg"] = <<"killed">>

\* C4: whenever the supervisor terminates, by any path, every process it has
\* spawned or adopted up to that point has received a termination attempt.
C4_NoProcessLeftWithoutAttempt ==
    Stopped => \A r \in Roles : Known(r) => Attempts(r) >= 1

\* C5: if a poll of the monitor returns a status outside {sleeping, running,
\* disk-sleep} or the lookup fails, the stop_event flag is set before that
\* same monitor cycle ends.
C5_UnhealthyPollSetsFlag ==
    (cycle_bad /\ mon \in {"poll", "sleep", "top", "done"}) => stop_event

\* a monitor cycle with an unhealthy poll has reached its sleep
C5_Witness == cycle_bad /\ mon = "sleep"

\* C6: a shutdown triggered by the monitor exits with a non-zero status; a
\* zero status is produced only for normal interactive termination.
C6_MonitorShutdownExitsNonZero ==
    /\ (Stopped /\ trigger = "monitor") => exit_code # 0
    /\ (Stopped /\ exit_code = 0) => trigger = "signal_running"

\* C7: a signal delivered at any point of the Running state makes the
\* shutdown routine execute once and the run exit with exit code 0.
C7_SignalWhileRunningExitsZero ==
    (Stopped /\ trigger = "signal_running")
       => (exit_code = 0 /\ kf["main"].pc # "idle")

\* C8: a second signal delivered while the shutdown routine is executing has
\* no effect: no additional kill attempt, and the processes not yet handled
\* still get theirs.
C8_SecondSignalNoEffect ==
    (Stopped /\ trigger = "signal_running" /\ nsig >= 2)
       => \A r \in Roles : Attempts(r) = 1

\* C9: if the scan finds a running 'backplane', its identifier is adopted and
\* the launcher is never invoked for the backplane; the launcher is invoked
\* for the backplane at most once and only when the scan found none.
C9_BackplaneNeverSpawnedTwice ==
    /\ launches["bp"] <= 1
    /\ adopted => launches["bp"] = 0
    /\ adopted => proc_bp \in 1..MaxProcs
    /\ (adopted /\ pc = "bp_launch")
          => (proc_bp \in 1..Len(procs) /\ procs[proc_bp].name = "backplane")

\* an adopted backplane, and startup has gone on to launch the gateways
C9_Witness ==
    /\ adopted
    /\ launches["awg"] = 1
    /\ launches["hwg"] = 1
    /\ pc = "loop_sleep"

\* C10: if the launch of a role fails, no later role is launched, the
\* monitor is never started and the run exits with a non-zero status.
C10_LaunchFailureStopsStartup ==
    failed_role # "none" =>
       /\ mon = "not_started"
       /\ pc \in {"finalize", "exited"}
       /\ exit_code # 0
       /\ launches[failed_role] = 1
       /\ failed_role = "bp" => (launches["awg"] = 0 /\ launches["hwg"] = 0)
       /\ failed_role = "awg" => launches["hwg"] = 0

\* the websocket gateway's launch failed and the run has ended
C10_Witness ==
    /\ failed_role = "awg"
    /\ Stopped
    /\ proc_bp # None

Running == pc \in {"loop_check", "loop_sleep"}

\* C11: once the stop_event flag is true no process launch occurs: every
\* spawn happens strictly before the flag can first become true (before the
\* flag even exists).
C11_NoLaunchAfterShutdown ==
    [][/\ stop_event => launches' = launches
       /\ launches' # launches => (~has_stop_event /\ ~stop_event')]_vars

\* the run has shut down with the flag set after one launch per role
C11_Witness ==
    /\ stop_event
    /\ Stopped
    /\ \A r \in Roles : launches[r] = 1

\* C12: startup order: the backplane has its identifier before the websocket
\* gateway is launched, which is launched before the device gateway; the
\* monitor starts only after the three launch steps returned; the gateways
\* are always spawned fresh, never adopted.
C12_StartupOrder ==
    /\ launches["awg"] >= 1 => (proc_bp # None /\ backplane_exists)
    /\ launches["hwg"] >= 1 => (proc_awg # None /\ launches["awg"] = 1)
    /\ mon # "not_started" =>
          (\A r \in Roles : Known(r)) /\ launches["awg"] = 1 /\ launches["hwg"] = 1
    /\ proc_awg # None => (proc_awg = SpawnPid("awg") /\ launches["awg"] = 1)
    /\ proc_hwg # None => (proc_hwg = SpawnPid("hwg") /\ launches["hwg"] = 1)

\* the monitor runs over an adopted backplane and two spawned gateways
C12_Witness ==
    /\ mon = "poll"
    /\ adopted
    /\ proc_awg = SpawnPid("awg")
    /\ proc_hwg = SpawnPid("hwg")

\* C13: when the monitor finds a process unhealthy, its own call of killall
\* attempts termination of every supervised process with a known identifier
\* before the monitor's cycle ends, rather than only setting the flag.
C13_MonitorCallKills ==
    (cycle_bad /\ mon = "sleep") => \A r \in Roles : Known(r) => Attempts(r) >= 1

\* C14: once the flag is true the monitor starts at most one further cycle:
\* the flag is tested at the top of every cycle and no cycle begins with the
\* flag observed true; the loop is left at that test.
C14_NoCycleAfterFlag ==
    [][/\ (stop_event /\ mon = "top" /\ mon' # mon) => mon' = "done"
       /\ (mon # "poll" /\ mon' = "poll") => (mon \in {"top", "killall"})
       /\ (mon = "top" /\ mon' = "poll") => ~stop_event]_vars

\* the flag was set in the middle of a cycle and the monitor has left its loop
C14_Witness ==
    /\ mon = "done"
    /\ cycle_bad
    /\ stop_event

\* C15: if the supervisor is Running and a supervised process has exited for
\* good, then with both threads scheduled fairly and no signal delivered the
\* supervisor eventually stops, all three processes having had a
\* termination attempt.
C15_UnhealthyLeadsToStopped ==
    (Running /\ dead # {})
       ~> (nsig > 0 \/ (Stopped /\ \A r \in Roles : Attempts(r) >= 1))

\* a process died, no signal came, and the run has stopped after the
\* monitor's detection with all three attempts made
C15_Witness ==
    /\ Stopped
    /\ nsig = 0
    /\ trigger = "monitor"
    /\ dead # {}
    /\ \A r \in Roles : Attempts(r) = 1

\* the first index of tab whose executable name is 'backplane', or None
FirstMatch(tab) ==
    IF \E i \in 1..Len(tab) : tab[i].name = "backplane"
    THEN CHOOSE i \in 1..Len(tab) :
            /\ tab[i].name = "backplane"
            /\ \A j \in 1..(i - 1) : tab[j].name # "backplane"
    ELSE None

\* C16: the backplane scan yields the identifier of the first process in
\* enumeration order named 'backplane' (none when no process matches), also
\* when several match.
C16_ScanYieldsFirstMatch ==
    (/\ pc = "bp_launch"
     /\ \A i \in 1..Len(procs) : procs[i].open /\ procs[i].nameOK)
       => proc_bp = FirstMatch(procs)

\* C17: the scan never fails because an enumerated process disappeared or
\* became inaccessible, wherever it sits and whichever query fails: such a
\* process is skipped and the scan goes on with the remaining ones.
C17_ScanAbsorbsRaces ==
    /\ trigger # "scan_error"
    /\ pc = "bp_launch" =>
          (adopted <=> \E i \in 1..Len(procs) :
                          procs[i].open /\ procs[i].nameOK /\ procs[i].name = "backplane")

\* C18: while every poll is healthy, every lookup succeeds and no signal
\* arrives, the flag stays false, no kill attempt is made and the
\* supervisor stays Running.
C18_NoSpuriousShutdown ==
    (mon # "not_started" /\ first_bad = "none" /\ nsig = 0)
       => (~stop_event /\ Running /\ \A r \in Roles : Attempts(r) = 0)

\* a full monitor cycle of healthy polls has ended, the wait loop goes on
C18_Witness ==
    /\ mon = "sleep"
    /\ first_bad = "none"
    /\ nsig = 0
    /\ pc = "loop_sleep"

\* C19: killall(b, w, p) attempts termination of exactly the roles whose
\* argument is present: the backplane iff b, the websocket gateway iff w,
\* the device gateway iff p.
C19_KillsExactlyPresentArgs ==
    (atexit_args # <<>> /\ kf["main"].pc = "returned")
       => \A i \in 1..3 : (Attempts(RoleAt(i)) >= 1) <=> Truthy(atexit_args[i])

\* C20: an adopted backplane is treated like a spawned one: the exit-time
\* killall makes a kill attempt on the adopted identifier, and the monitor
\* polls it and triggers shutdown when it is unhealthy.
C20_AdoptedTreatedLikeSpawned ==
    adopted =>
       /\ proc_bp \in 1..MaxProcs
       /\ atexit_args # <<>> => atexit_args[1] = PidVal(proc_bp)
       /\ kf["main"].pc = "returned" => Attempts("bp") >= 1
       /\ (kf["main"].pc = "kill" /\ kf["main"].r = "bp") => kf["main"].p = ProcObj(proc_bp)
       /\ (first_bad = "bp" /\ kf["monitor"].pc # "set") => stop_event

\* the monitor found the adopted backplane unhealthy and the exit-time
\* killall killed it
C20_Witness ==
    /\ adopted
    /\ first_bad = "bp"
    /\ Stopped
    /\ klog["bp"] = <<"killed">>

====
